---- MODULE Spec2Model ----
(***************************************************************************)
(* Model of great_schools_pull.py: the HTTP fetcher (BaseScraper), the     *)
(* three per-site scrapers (GreatSchools, Niche, SchoolDigger) and the     *)
(* coordinator PASchoolDistrictScraper.scrape_all_districts with its       *)
(* checkpoint and final CSV writes.                                        *)
(*                                                                         *)
(* Strings are sequences of one-character strings.  An Optional value is   *)
(* None == {} or Some(v) == {v}.  A page text is a record: the empty text, *)
(* or a page described by what BeautifulSoup finds in it (its anchors, the *)
(* text of the first element each pattern selects, whether the raw text    *)
(* contains "404").                                                        *)
(***************************************************************************)
EXTENDS Integers, Sequences, FiniteSets, TLC

\* ------------------------------------------------------------------ bounds
\* longest input list of the deterministic (offline / mock) runs
MaxN == 23

\* ------------------------------------------------------- program constants
\* "if (i + 1) % 10 == 0"
CheckpointEvery == 10

\* ---------------------------------------------------------------- options
None == {}
Some(v) == {v}
The(o) == CHOOSE v \in o : TRUE

\* ---------------------------------------------------------------- strings
UpperChars ==
    <<"A", "B", "C", "D", "E", "F", "G", "H", "I", "J", "K", "L", "M",
      "N", "O", "P", "Q", "R", "S", "T", "U", "V", "W", "X", "Y", "Z">>
LowerChars ==
    <<"a", "b", "c", "d", "e", "f", "g", "h", "i", "j", "k", "l", "m",
      "n", "o", "p", "q", "r", "s", "t", "u", "v", "w", "x", "y", "z">>
DigitChars == <<"0", "1", "2", "3", "4", "5", "6", "7", "8", "9">>

\* str.lower(), one character
LowerChar(c) ==
    IF \E k \in 1..Len(UpperChars) : UpperChars[k] = c
    THEN LowerChars[CHOOSE k \in 1..Len(UpperChars) : UpperChars[k] = c]
    ELSE c

\* str.lower()
Lower(s) == [k \in 1..Len(s) |-> LowerChar(s[k])]

\* "sub in s"
Contains(s, sub) ==
    \E p \in 1..(Len(s) - Len(sub) + 1) : SubSeq(s, p, p + Len(sub) - 1) = sub

\* str.strip(): drop leading and trailing blanks
RECURSIVE Strip(_)
Strip(s) ==
    IF s = <<>> THEN s
    ELSE IF Head(s) = " " THEN Strip(Tail(s))
    ELSE IF s[Len(s)] = " " THEN Strip(SubSeq(s, 1, Len(s) - 1))
    ELSE s

\* str.strip('-')
RECURSIVE StripDash(_)
StripDash(s) ==
    IF s = <<>> THEN s
    ELSE IF Head(s) = "-" THEN StripDash(Tail(s))
    ELSE IF s[Len(s)] = "-" THEN StripDash(SubSeq(s, 1, Len(s) - 1))
    ELSE s

\* str.replace(old, new), old non-empty
RECURSIVE Replace(_, _, _)
Replace(s, old, new) ==
    IF Len(s) < Len(old) THEN s
    ELSE IF SubSeq(s, 1, Len(old)) = old
         THEN new \o Replace(SubSeq(s, Len(old) + 1, Len(s)), old, new)
         ELSE <<Head(s)>> \o Replace(Tail(s), old, new)

IsDigit(c) == \E k \in 1..10 : DigitChars[k] = c
DigitVal(c) == (CHOOSE k \in 1..10 : DigitChars[k] = c) - 1

\* last index of the run of digits that starts at p (p - 1 when s[p] is none)
RECURSIVE DigitRunEnd(_, _)
DigitRunEnd(s, p) ==
    IF p <= Len(s) /\ IsDigit(s[p]) THEN DigitRunEnd(s, p + 1) ELSE p - 1

\* int(str) of a string of digits and nothing else
RECURSIVE ToInt(_)
ToInt(s) ==
    IF s = <<>> THEN 0 ELSE 10 * ToInt(SubSeq(s, 1, Len(s) - 1)) + DigitVal(s[Len(s)])

\* str(int), n >= 0
RECURSIVE IntToChars(_)
IntToChars(n) ==
    IF n < 10 THEN <<DigitChars[n + 1]>>
    ELSE IntToChars(n \div 10) \o <<DigitChars[(n % 10) + 1]>>

\* re.search(r'(\d+)', s).group(1), or None
SearchNumber(s) ==
    IF \E p \in 1..Len(s) : IsDigit(s[p])
    THEN LET p == CHOOSE q \in 1..Len(s) :
                     IsDigit(s[q]) /\ \A r \in 1..(q - 1) : ~IsDigit(s[r])
         IN  Some(SubSeq(s, p, DigitRunEnd(s, p)))
    ELSE None

\* end of the greedy match of \d+(?:,\d+)* whose first digit run ends at e
RECURSIVE GroupedEnd(_, _)
GroupedEnd(s, e) ==
    IF e + 2 <= Len(s) /\ s[e + 1] = "," /\ IsDigit(s[e + 2])
    THEN GroupedEnd(s, DigitRunEnd(s, e + 2))
    ELSE e

\* re.search(r'(\d+(?:,\d+)*)', s).group(1), or None
SearchGroupedNumber(s) ==
    IF \E p \in 1..Len(s) : IsDigit(s[p])
    THEN LET p == CHOOSE q \in 1..Len(s) :
                     IsDigit(s[q]) /\ \A r \in 1..(q - 1) : ~IsDigit(s[r])
         IN  Some(SubSeq(s, p, GroupedEnd(s, DigitRunEnd(s, p))))
    ELSE None

\* \d+:\d+ matches at position p
RatioAt(s, p) ==
    /\ p <= Len(s) /\ IsDigit(s[p])
    /\ LET e == DigitRunEnd(s, p)
       IN  e + 2 <= Len(s) /\ s[e + 1] = ":" /\ IsDigit(s[e + 2])

\* re.search(r'(\d+:\d+)', s).group(1), or None
SearchRatio(s) ==
    IF \E p \in 1..Len(s) : RatioAt(s, p)
    THEN LET p == CHOOSE q \in 1..Len(s) :
                     RatioAt(s, q) /\ \A r \in 1..(q - 1) : ~RatioAt(s, r)
             e == DigitRunEnd(s, p)
         IN  Some(SubSeq(s, p, DigitRunEnd(s, e + 2)))
    ELSE None

GradeLetters == {"A", "B", "C", "D", "E", "F"}

\* re.search(r'([A-F][+-]?)', s).group(1), or None
SearchGrade(s) ==
    IF \E p \in 1..Len(s) : s[p] \in GradeLetters
    THEN LET p == CHOOSE q \in 1..Len(s) :
                     s[q] \in GradeLetters /\ \A r \in 1..(q - 1) : s[r] \notin GradeLetters
         IN  IF p < Len(s) /\ s[p + 1] \in {"+", "-"}
             THEN Some(SubSeq(s, p, p + 1))
             ELSE Some(<<s[p]>>)
    ELSE None

\* ----------------------------------------------------------------- records
\* pd.Timestamp.now().isoformat(): some non-empty text
Timestamp == <<"n", "o", "w">>

\* a record whose enrollment defaults to 0 instead of None
NewRecordZeroEnrollment(name) ==
    [district_name |-> name,
     county |-> <<>>,
     greatschools_rating |-> None,
     greatschools_url |-> None,
     niche_rating |-> None,
     niche_url |-> None,
     schooldigger_rating |-> None,
     schooldigger_url |-> None,
     enrollment |-> Some(0),
     student_teacher_ratio |-> None,
     last_updated |-> Some(Timestamp)]

\* SchoolDistrictData(district_name=..., county="", last_updated=...)
NewRecord(name) ==
    [district_name |-> name,
     county |-> <<>>,
     greatschools_rating |-> None,
     greatschools_url |-> None,
     niche_rating |-> None,
     niche_url |-> None,
     schooldigger_rating |-> None,
     schooldigger_url |-> None,
     enrollment |-> None,
     student_teacher_ratio |-> None,
     last_updated |-> Some(Timestamp)]

\* ------------------------------------------------------------------- pages
NoLinks == <<>>

\* the text "" (falsy in Python)
EmptyText ==
    [nonempty |-> FALSE, has404 |-> FALSE, links |-> NoLinks, rating_elem |-> None,
     enrollment_text |-> None, ratio_text |-> None, grade_elem |-> None,
     ranking_text |-> None]

\* a non-empty text in which no pattern of any scraper finds anything
PlainPage == [EmptyText EXCEPT !.nonempty = TRUE]

\* a non-empty text that contains the substring "404"
NotFoundPage == [PlainPage EXCEPT !.has404 = TRUE]

\* "if source" / "if not source": None and "" are falsy
Truthy(source) == source # None /\ The(source).nonempty

\* ---------------------------------------------------------------- the URLs
GsBase == "https://www.greatschools.org"
NicheBase == "https://www.niche.com"
SdBase == "https://www.schooldigger.com"

\* urllib.parse.quote on the characters of the model: a blank is escaped
RECURSIVE Quote(_)
Quote(s) ==
    IF s = <<>> THEN s
    ELSE (IF Head(s) = " " THEN <<"%", "2", "0">> ELSE <<Head(s)>>) \o Quote(Tail(s))

\* a URL: host, the fixed part of its path and query, the part made from the name
Url(host, path, arg) == [host |-> host, path |-> path, arg |-> arg]

\* search_url + "?" + "&".join(...) of GreatSchoolsScraper.search_district
GsSearchUrl(name) ==
    Url(GsBase, "/search/search.page?q={}&state=PA&level=district", Quote(name))

SchoolDistrictSlug ==
    <<"s", "c", "h", "o", "o", "l", "-", "d", "i", "s", "t", "r", "i", "c", "t">>

Pennsylvania == <<"p", "e", "n", "n", "s", "y", "l", "v", "a", "n", "i", "a">>

\* district_name.lower().replace(' ', '-').replace('school-district', '').strip('-')
DistrictSlug(name) ==
    StripDash(Replace(Replace(Lower(name), <<" ">>, <<"-">>), SchoolDistrictSlug, <<>>))

\* potential_url of NicheScraper.search_district
NichePotentialUrl(name) ==
    Url(NicheBase, "/k12/d/{}/", DistrictSlug(name) \o <<"-">> \o Pennsylvania)

\* search_url + "?" + "&".join(...) of NicheScraper.search_district
NicheSearchUrl(name) ==
    Url(NicheBase, "/search/k12/?q={}", Quote(name \o <<" ">> \o Pennsylvania))

\* search_url + "?" + "&".join(...) of SchoolDiggerScraper.search_district
SdSearchUrl(name) ==
    Url(SdBase, "/go/PA/search.aspx?searchterm={}&searchtype=district", Quote(name))

\* href values of the anchors of the sample pages, and whether the district
\* pattern of the scraper (re.compile(r'/pennsylvania/.*-district/') etc.)
\* is found in them
RelHref == [host |-> None, path |-> "district-1", matches |-> TRUE]
AbsHref == [host |-> Some("https://cdn.example.org"), path |-> "district-2", matches |-> TRUE]
OtherHref == [host |-> None, path |-> "about", matches |-> FALSE]

\* urljoin(self.base_url, link['href'])
UrlJoin(base, href) ==
    IF href.host = None
    THEN Url(base, href.path, <<>>)
    ELSE Url(The(href.host), href.path, <<>>)

\* soup.find_all('a', href=re.compile(...)): the anchors whose href matches
FindAllLinks(page) == SelectSeq(page.links, LAMBDA l : l.href.matches)

\* for link in district_links: if district_name.lower() in link.get_text().lower(): return urljoin(...)
RECURSIVE FirstLink(_, _, _)
FirstLink(base, links, name) ==
    IF links = <<>> THEN None
    ELSE IF Contains(Lower(Head(links).text), Lower(name))
         THEN Some(UrlJoin(base, Head(links).href))
         ELSE FirstLink(base, Tail(links), name)

\* ------------------------------------------------------------- the fetcher
\* what the network does with one GET
NetError(why) == [kind |-> why, status |-> 0, text |-> EmptyText]
Response(status, text) == [kind |-> "response", status |-> status, text |-> text]

\* response.raise_for_status(): HTTPError for 4xx and 5xx
RaiseForStatus(status) == 400 <= status /\ status < 600

\* get_page_source that tries a second time when the first GET fails
GetPageSourceRetry(url, outcome) ==
    [url |-> url,
     outcome |-> outcome,
     events |-> IF outcome.kind = "response" /\ ~RaiseForStatus(outcome.status)
                THEN <<"sleep", "get">>
                ELSE <<"sleep", "get", "sleep", "get">>,
     raised |-> FALSE,
     ret |-> IF outcome.kind = "response" /\ ~RaiseForStatus(outcome.status)
             THEN Some(outcome.text)
             ELSE None]

\* BaseScraper.get_page_source: the sleep, the GET, and what is returned
GetPageSource(url, outcome) ==
    [url |-> url,
     outcome |-> outcome,
     events |-> <<"sleep", "get">>,
     raised |-> FALSE,
     ret |-> IF outcome.kind = "response" /\ ~RaiseForStatus(outcome.status)
             THEN Some(outcome.text)
             ELSE None]

\* -------------------------------------------------- scrape_district_data
EmptyGsData ==
    [greatschools_rating |-> None, enrollment |-> None,
     student_teacher_ratio |-> None, greatschools_url |-> None]

EmptyNicheData == [niche_rating |-> None, niche_url |-> None]

EmptySdData == [schooldigger_rating |-> None, schooldigger_url |-> None]

\* int(match.group(1)) when there is a match
MatchInt(o) == IF o = None THEN None ELSE Some(ToInt(The(o)))
RemoveCommas(s) == Replace(s, <<",">>, <<>>)
\* int(match.group(1).replace(',', '')) when there is a match
MatchCommaInt(o) == IF o = None THEN None ELSE Some(ToInt(RemoveCommas(The(o))))

\* scrape_district_data that records the URL only next to a rating
GsScrapeDataUrlInside(url, source) ==
    IF ~Truthy(source) THEN EmptyGsData
    ELSE LET page == The(source)
             rating == IF page.rating_elem = None THEN None
                       ELSE MatchInt(SearchNumber(Strip(The(page.rating_elem))))
         IN  [greatschools_rating |-> rating,
              enrollment |->
                  IF page.enrollment_text = None THEN None
                  ELSE MatchCommaInt(SearchGroupedNumber(The(page.enrollment_text))),
              student_teacher_ratio |->
                  IF page.ratio_text = None THEN None
                  ELSE SearchRatio(The(page.ratio_text)),
              greatschools_url |-> IF rating = None THEN None ELSE Some(url)]

\* GreatSchoolsScraper.scrape_district_data, given what get_page_source returned
GsScrapeData(url, source) ==
    IF ~Truthy(source) THEN EmptyGsData
    ELSE LET page == The(source)
         IN  [greatschools_rating |->
                  IF page.rating_elem = None THEN None
                  ELSE MatchInt(SearchNumber(Strip(The(page.rating_elem)))),
              enrollment |->
                  IF page.enrollment_text = None THEN None
                  ELSE MatchCommaInt(SearchGroupedNumber(The(page.enrollment_text))),
              student_teacher_ratio |->
                  IF page.ratio_text = None THEN None
                  ELSE SearchRatio(The(page.ratio_text)),
              greatschools_url |-> Some(url)]

\* NicheScraper.scrape_district_data, given what get_page_source returned
NicheScrapeData(url, source) ==
    IF ~Truthy(source) THEN EmptyNicheData
    ELSE LET page == The(source)
         IN  [niche_rating |->
                  IF page.grade_elem = None THEN None
                  ELSE SearchGrade(Strip(The(page.grade_elem))),
              niche_url |-> Some(url)]

\* SchoolDiggerScraper.scrape_district_data, given what get_page_source returned
SdScrapeData(url, source) ==
    IF ~Truthy(source) THEN EmptySdData
    ELSE LET page == The(source)
         IN  [schooldigger_rating |->
                  IF page.ranking_text = None THEN None
                  ELSE SearchNumber(The(page.ranking_text)),
              schooldigger_url |-> Some(url)]

\* the guess accepted whenever the fetch returned a text
NicheAcceptsGuessAny(source) == source # None /\ The(source).nonempty

\* "source and '404' not in source" of NicheScraper.search_district
NicheAcceptsGuess(source) == Truthy(source) /\ ~The(source).has404

\* ------------------------------------------------------------ the merges
\* district_data.greatschools_* = gs_data.get(...)
MergeGs(rec, data) ==
    [rec EXCEPT !.greatschools_rating = data.greatschools_rating,
                !.greatschools_url = data.greatschools_url,
                !.enrollment = data.enrollment,
                !.student_teacher_ratio = data.student_teacher_ratio]

\* the Niche copies with the URL assigned to the GreatSchools field
MergeNicheClobber(rec, data) ==
    [rec EXCEPT !.niche_rating = data.niche_rating,
                !.greatschools_url = data.niche_url]

\* district_data.niche_* = niche_data.get(...)
MergeNiche(rec, data) ==
    [rec EXCEPT !.niche_rating = data.niche_rating,
                !.niche_url = data.niche_url]

\* district_data.schooldigger_* = sd_data.get(...)
MergeSd(rec, data) ==
    [rec EXCEPT !.schooldigger_rating = data.schooldigger_rating,
                !.schooldigger_url = data.schooldigger_url]

\* -------------------------------------------------------------- the files
\* a CSV cell: a missing value is written as the empty cell
Cell(o) == IF o = None THEN <<>> ELSE The(o)
NumCell(o) == IF o = None THEN <<>> ELSE IntToChars(The(o))
UrlCell(o) == IF o = None THEN [host |-> "", path |-> "", arg |-> <<>>] ELSE The(o)

\* one row of pd.DataFrame([vars(r) for r in results]).to_csv(...)
CsvRow(r) ==
    [district_name |-> r.district_name,
     county |-> r.county,
     greatschools_rating |-> NumCell(r.greatschools_rating),
     greatschools_url |-> UrlCell(r.greatschools_url),
     niche_rating |-> Cell(r.niche_rating),
     niche_url |-> UrlCell(r.niche_url),
     schooldigger_rating |-> Cell(r.schooldigger_rating),
     schooldigger_url |-> UrlCell(r.schooldigger_url),
     enrollment |-> NumCell(r.enrollment),
     student_teacher_ratio |-> Cell(r.student_teacher_ratio),
     last_updated |-> Cell(r.last_updated)]

ToCsv(rs) == [k \in 1..Len(rs) |-> CsvRow(rs[k])]

\* save_results that opens the file for appending
SaveResultsAppending(fs, rs, filename) ==
    [fs EXCEPT ![filename] = Some((IF @ = None THEN <<>> ELSE The(@)) \o ToCsv(rs))]

\* PASchoolDistrictScraper.save_results: the file is replaced by the table
SaveResults(fs, rs, filename) == [fs EXCEPT ![filename] = Some(ToCsv(rs))]

\* "if (i + 1) % 10 == 0", i the 0-based index of the district just appended
CheckpointDue(idx) == (idx + 1) % CheckpointEvery = 0

\* ------------------------------------------------------------- the inputs
\* district names of the runs against an arbitrary network
SampleNames == {<<>>, <<"P", "a">>}

\* the k-th of a family of pairwise distinct names: "D00", "D01", ...
DistrictName(k) == <<"D", DigitChars[(k \div 10) + 1], DigitChars[(k % 10) + 1]>>

\* the input lists of the runs against a deterministic network: pairwise
\* distinct names, one name repeated, and a list with an empty name in it
DistinctList(n) == [k \in 1..n |-> DistrictName(k)]
RepeatedList(n) == [k \in 1..n |-> DistrictName(1)]
EmptyNameList(n) == [k \in 1..n |-> IF k = 1 THEN <<>> ELSE DistrictName(k)]

LongLists ==
    UNION {{DistinctList(n), RepeatedList(n), EmptyNameList(n)} : n \in 0..MaxN}

ShortLists == {<<>>} \cup {<<n>> : n \in SampleNames}

\* a run is given its list of names and meets one kind of network:
\*   "any"     every fetch may fail or return any of the sample pages
\*   "offline" every fetch fails
\*   "mock"    every URL has one fixed response
Inputs ==
    {<<l, "any">> : l \in ShortLists}
        \cup {<<l, w>> : l \in LongLists, w \in {"offline", "mock"}}

\* ------------------------------------------------------------ the network
MatchText == <<"P", "A", " ", "S", "D">>
OtherText == <<"O", "h">>

Link(href, text) == [href |-> href, text |-> text]

SampleLinks ==
    {Link(RelHref, MatchText), Link(AbsHref, MatchText),
     Link(RelHref, OtherText), Link(OtherHref, MatchText)}

SearchPage(links) == [PlainPage EXCEPT !.links = links]

SearchPages ==
    {SearchPage(<<>>)} \cup {SearchPage(<<a>>) : a \in SampleLinks}
        \cup {SearchPage(<<a, b>>) : a \in SampleLinks, b \in SampleLinks}

RatingTexts == {<<"R", " ", "8", "/", "1", "0">>, <<"n", "/", "a">>}
EnrollmentTexts == {<<"1", ",", "2", "3", "4", " ", "s", "t", "u", "d", "e", "n", "t", "s">>}
RatioTexts == {<<"r", "a", "t", "i", "o", " ", "1", "5", ":", "1">>}
GradeTexts ==
    {<<"A">>, <<" ", "B", "+">>, <<"F", "-">>, <<"N", "/", "A">>,
     <<"G", "o", "o", "d">>, <<"B", "e", "s", "t">>}
RankingTexts == {<<"R", "a", "n", "k", " ", "4", "2">>, <<"r", "a", "n", "k", "e", "d">>}

Optional(S) == {None} \cup {Some(v) : v \in S}

GsPages ==
    {[PlainPage EXCEPT !.rating_elem = r, !.enrollment_text = e, !.ratio_text = t] :
        r \in Optional(RatingTexts), e \in Optional(EnrollmentTexts),
        t \in Optional(RatioTexts)}

NichePages == {[PlainPage EXCEPT !.grade_elem = g] : g \in Optional(GradeTexts)}

SdPages == {[PlainPage EXCEPT !.ranking_text = r] : r \in Optional(RankingTexts)}

\* the texts a request of each kind may be answered with
PagesFor(kind) ==
    CASE kind \in {"gs_search", "niche_search", "sd_search"} -> SearchPages
      [] kind = "gs_page" -> GsPages
      [] kind = "niche_guess" -> NichePages \cup {NotFoundPage}
      [] kind = "niche_page" -> NichePages
      [] kind = "sd_page" -> SdPages

\* the fixed response of the mock network to each kind of request
MockPage(kind, name) ==
    CASE kind \in {"gs_search", "niche_search", "sd_search"} ->
             SearchPage(<<Link(OtherHref, name), Link(RelHref, name \o <<" ", "S", "D">>)>>)
      [] kind = "gs_page" ->
             [PlainPage EXCEPT !.rating_elem = Some(<<"R", " ", "8", "/", "1", "0">>)]
      [] kind = "niche_guess" -> NotFoundPage
      [] kind = "niche_page" -> [PlainPage EXCEPT !.grade_elem = Some(<<"B", "+">>)]
      [] kind = "sd_page" -> [PlainPage EXCEPT !.ranking_text = Some(<<"4", "2">>)]

\* what may come of one GET
Outcomes(w, kind, name) ==
    CASE w = "offline" -> {NetError("connection")}
      [] w = "mock" -> {Response(200, MockPage(kind, name))}
      [] w = "any" ->
             {NetError("connection"), NetError("timeout")}
                 \cup {Response(st, t) : st \in {200, 304}, t \in PagesFor(kind) \cup {EmptyText}}
                 \cup {Response(st, NotFoundPage) : st \in {404, 500}}

\* ---------------------------------------------------------------- state
VARIABLES
    district_names,  \* the argument of scrape_all_districts
    web,             \* the kind of network of this run
    pc,              \* position in scrape_all_districts
    i,               \* number of districts fully processed
    district_data,   \* the record under construction
    gs_url,          \* result of greatschools_scraper.search_district
    niche_url,       \* result of niche_scraper.search_district
    sd_url,          \* result of schooldigger_scraper.search_district
    results,         \* the accumulated list
    files,           \* content of the checkpoint and of the final file
    returned,        \* return value of scrape_all_districts
    fetches,         \* the get_page_source calls of the last step
    grade_text,      \* grade_text of the last NicheScraper.scrape_district_data
    hist             \* per district: sleeps, order of the sites, what each site did

vars ==
    <<district_names, web, pc, i, district_data, gs_url, niche_url, sd_url,
      results, files, returned, fetches, grade_text, hist>>

NoHist ==
    [step |-> "none", delays |-> 0, got |-> 0, queried |-> <<>>, niche_via |-> "none",
     extract |-> [gs |-> "none", niche |-> "none", sd |-> "none"],
     writes |-> [temp |-> 0, final |-> 0]]

\* number of time.sleep calls in a list of get_page_source calls
RECURSIVE Sleeps(_)
Sleeps(fs) ==
    IF fs = <<>> THEN 0
    ELSE Cardinality({k \in 1..Len(Head(fs).events) : Head(fs).events[k] = "sleep"})
             + Sleeps(Tail(fs))

\* number of get_page_source calls in a list that returned a text
RECURSIVE Got(_)
Got(fs) ==
    IF fs = <<>> THEN 0 ELSE (IF Head(fs).ret # None THEN 1 ELSE 0) + Got(Tail(fs))

\* how an extract fetch ended
FetchClass(source) ==
    IF source = None THEN "failed" ELSE IF Truthy(source) THEN "text" ELSE "empty"

Init ==
    /\ \E inp \in Inputs : district_names = inp[1] /\ web = inp[2]
    /\ pc = "loop"
    /\ i = 0
    /\ district_data = None
    /\ gs_url = None /\ niche_url = None /\ sd_url = None
    /\ results = <<>>
    /\ files = [temp |-> None, final |-> None]
    /\ returned = None
    /\ fetches = <<>>
    /\ grade_text = None
    /\ hist = NoHist

Name == district_names[i + 1]

\* for i, district_name in enumerate(district_names): district_data = SchoolDistrictData(...)
BeginDistrict ==
    /\ pc = "loop" /\ i < Len(district_names)
    /\ district_data' = Some(NewRecord(Name))
    /\ gs_url' = None /\ niche_url' = None /\ sd_url' = None
    /\ fetches' = <<>>
    /\ grade_text' = None
    /\ hist' = [NoHist EXCEPT !.writes = hist.writes]
    /\ pc' = "gs_search"
    /\ UNCHANGED <<district_names, web, i, results, files, returned>>

\* gs_url = self.greatschools_scraper.search_district(district_name)
GsSearch ==
    /\ pc = "gs_search"
    /\ \E o \in Outcomes(web, "gs_search", Name) :
        LET f == GetPageSource(GsSearchUrl(Name), o)
            url == IF ~Truthy(f.ret) THEN None
                   ELSE FirstLink(GsBase, FindAllLinks(The(f.ret)), Name)
        IN  /\ fetches' = <<f>>
            /\ gs_url' = url
            /\ hist' = [hist EXCEPT !.step = "gs_search", !.delays = @ + Sleeps(<<f>>),
                                    !.got = @ + Got(<<f>>), !.queried = Append(@, "gs")]
            /\ pc' = IF url # None THEN "gs_scrape" ELSE "niche_search"
    /\ UNCHANGED <<district_names, web, i, district_data, niche_url, sd_url,
                   results, files, returned, grade_text>>

\* gs_data = self.greatschools_scraper.scrape_district_data(gs_url) and the four copies
GsScrape ==
    /\ pc = "gs_scrape"
    /\ \E o \in Outcomes(web, "gs_page", Name) :
        LET f == GetPageSource(The(gs_url), o)
            data == GsScrapeData(The(gs_url), f.ret)
        IN  /\ fetches' = <<f>>
            /\ district_data' = Some(MergeGs(The(district_data), data))
            /\ hist' = [hist EXCEPT !.step = "gs_scrape", !.delays = @ + Sleeps(<<f>>),
                                    !.got = @ + Got(<<f>>), !.extract.gs = FetchClass(f.ret)]
    /\ pc' = "niche_search"
    /\ UNCHANGED <<district_names, web, i, gs_url, niche_url, sd_url,
                   results, files, returned, grade_text>>

\* niche_url = self.niche_scraper.search_district(district_name)
NicheSearch ==
    /\ pc = "niche_search"
    /\ \E o1 \in Outcomes(web, "niche_guess", Name) :
        LET f1 == GetPageSource(NichePotentialUrl(Name), o1)
        IN  IF NicheAcceptsGuess(f1.ret)
            THEN /\ fetches' = <<f1>>
                 /\ niche_url' = Some(NichePotentialUrl(Name))
                 /\ hist' = [hist EXCEPT !.step = "niche_search", !.delays = @ + Sleeps(<<f1>>),
                                         !.got = @ + Got(<<f1>>), !.queried = Append(@, "niche"),
                                         !.niche_via = "guess"]
                 /\ pc' = "niche_scrape"
            ELSE \E o2 \in Outcomes(web, "niche_search", Name) :
                   LET f2 == GetPageSource(NicheSearchUrl(Name), o2)
                       url == IF ~Truthy(f2.ret) THEN None
                              ELSE FirstLink(NicheBase, FindAllLinks(The(f2.ret)), Name)
                   IN  /\ fetches' = <<f1, f2>>
                       /\ niche_url' = url
                       /\ hist' = [hist EXCEPT !.step = "niche_search",
                                               !.delays = @ + Sleeps(<<f1, f2>>),
                                               !.got = @ + Got(<<f1, f2>>),
                                               !.queried = Append(@, "niche"),
                                               !.niche_via = "search"]
                       /\ pc' = IF url # None THEN "niche_scrape" ELSE "sd_search"
    /\ UNCHANGED <<district_names, web, i, district_data, gs_url, sd_url,
                   results, files, returned, grade_text>>

\* niche_data = self.niche_scraper.scrape_district_data(niche_url) and the two copies
NicheScrape ==
    /\ pc = "niche_scrape"
    /\ \E o \in Outcomes(web, "niche_page", Name) :
        LET f == GetPageSource(The(niche_url), o)
            data == NicheScrapeData(The(niche_url), f.ret)
        IN  /\ fetches' = <<f>>
            /\ district_data' = Some(MergeNiche(The(district_data), data))
            /\ grade_text' = IF Truthy(f.ret) /\ The(f.ret).grade_elem # None
                             THEN Some(Strip(The(The(f.ret).grade_elem)))
                             ELSE None
            /\ hist' = [hist EXCEPT !.step = "niche_scrape", !.delays = @ + Sleeps(<<f>>),
                                    !.got = @ + Got(<<f>>), !.extract.niche = FetchClass(f.ret)]
    /\ pc' = "sd_search"
    /\ UNCHANGED <<district_names, web, i, gs_url, niche_url, sd_url,
                   results, files, returned>>

\* sd_url = self.schooldigger_scraper.search_district(district_name)
SdSearch ==
    /\ pc = "sd_search"
    /\ \E o \in Outcomes(web, "sd_search", Name) :
        LET f == GetPageSource(SdSearchUrl(Name), o)
            url == IF ~Truthy(f.ret) THEN None
                   ELSE FirstLink(SdBase, FindAllLinks(The(f.ret)), Name)
        IN  /\ fetches' = <<f>>
            /\ sd_url' = url
            /\ hist' = [hist EXCEPT !.step = "sd_search", !.delays = @ + Sleeps(<<f>>),
                                    !.got = @ + Got(<<f>>), !.queried = Append(@, "sd")]
            /\ pc' = IF url # None THEN "sd_scrape" ELSE "append"
    /\ UNCHANGED <<district_names, web, i, district_data, gs_url, niche_url,
                   results, files, returned, grade_text>>

\* sd_data = self.schooldigger_scraper.scrape_district_data(sd_url) and the two copies
SdScrape ==
    /\ pc = "sd_scrape"
    /\ \E o \in Outcomes(web, "sd_page", Name) :
        LET f == GetPageSource(The(sd_url), o)
            data == SdScrapeData(The(sd_url), f.ret)
        IN  /\ fetches' = <<f>>
            /\ district_data' = Some(MergeSd(The(district_data), data))
            /\ hist' = [hist EXCEPT !.step = "sd_scrape", !.delays = @ + Sleeps(<<f>>),
                                    !.got = @ + Got(<<f>>), !.extract.sd = FetchClass(f.ret)]
    /\ pc' = "append"
    /\ UNCHANGED <<district_names, web, i, gs_url, niche_url, sd_url,
                   results, files, returned, grade_text>>

\* the loop body's end with the list emptied after each checkpoint
AppendResultFlush ==
    /\ pc = "append"
    /\ LET rs == Append(results, The(district_data))
       IN  IF CheckpointDue(i)
           THEN /\ files' = SaveResults(files, rs, "temp")
                /\ hist' = [hist EXCEPT !.step = "append", !.writes.temp = @ + 1]
                /\ results' = <<>>
           ELSE /\ files' = files
                /\ hist' = [hist EXCEPT !.step = "append"]
                /\ results' = rs
    /\ i' = i + 1
    /\ fetches' = <<>>
    /\ pc' = "loop"
    /\ UNCHANGED <<district_names, web, district_data, gs_url, niche_url, sd_url,
                   returned, grade_text>>

\* results.append(district_data); every tenth district save_results(results, "temp_...")
AppendResult ==
    /\ pc = "append"
    /\ LET rs == Append(results, The(district_data))
       IN  /\ results' = rs
           /\ IF CheckpointDue(i)
              THEN /\ files' = SaveResults(files, rs, "temp")
                   /\ hist' = [hist EXCEPT !.step = "append", !.writes.temp = @ + 1]
              ELSE /\ files' = files
                   /\ hist' = [hist EXCEPT !.step = "append"]
    /\ i' = i + 1
    /\ fetches' = <<>>
    /\ pc' = "loop"
    /\ UNCHANGED <<district_names, web, district_data, gs_url, niche_url, sd_url,
                   returned, grade_text>>

\* after the loop: self.save_results(results, output_file); return results
FinalSave ==
    /\ pc = "loop" /\ i = Len(district_names)
    /\ files' = SaveResults(files, results, "final")
    /\ hist' = [hist EXCEPT !.step = "final_save", !.writes.final = @ + 1]
    /\ returned' = Some(results)
    /\ pc' = "done"
    /\ UNCHANGED <<district_names, web, i, district_data, gs_url, niche_url, sd_url,
                   results, fetches, grade_text>>

Next ==
    \/ BeginDistrict
    \/ GsSearch
    \/ GsScrape
    \/ NicheSearch
    \/ NicheScrape
    \/ SdSearch
    \/ SdScrape
    \/ AppendResult
    \/ FinalSave

Spec == Init /\ [][Next]_vars

\* ================================================================ claims
N == Len(district_names)

PairwiseDistinct(q) == \A a, b \in 1..Len(q) : a # b => q[a] # q[b]

GsPart(r) ==
    <<r.greatschools_rating, r.greatschools_url, r.enrollment, r.student_teacher_ratio>>
NichePart(r) == <<r.niche_rating, r.niche_url>>
SdPart(r) == <<r.schooldigger_rating, r.schooldigger_url>>
KeyPart(r) == <<r.district_name, r.county, r.last_updated>>

\* C1: right after the k-th district has been processed the checkpoint file
\* exists iff k >= 10, and it then holds exactly the rows of the first
\* 10 * floor(k / 10) records in input order (every write replaced the file).
C1_Checkpoint ==
    (pc = "loop" /\ i >= 1) =>
        /\ (files.temp # None) <=> (i >= 10)
        /\ hist.writes.temp = i \div 10
        /\ files.temp # None =>
             LET rows == The(files.temp)
             IN  /\ Len(rows) = 10 * (i \div 10)
                 /\ \A k \in 1..Len(rows) :
                        /\ rows[k] = CsvRow(results[k])
                        /\ rows[k].district_name = district_names[k]

C1_Witness ==
    /\ pc = "loop" /\ i = 10 /\ N = 23
    /\ files.temp # None /\ Len(The(files.temp)) = 10

\* C2: when scrape_all_districts finishes, the final file and the returned
\* list hold exactly N records, the k-th carrying the k-th input name; the
\* final file has no duplicate rows when the names are pairwise distinct, and
\* it is written exactly once, after the last district.
C2_FinalOutput ==
    /\ pc # "done" => files.final = None /\ hist.writes.final = 0 /\ returned = None
    /\ pc = "done" =>
         /\ hist.writes.final = 1
         /\ i = N
         /\ files.final # None /\ returned # None
         /\ LET rows == The(files.final)
                recs == The(returned)
            IN  /\ Len(rows) = N /\ Len(recs) = N
                /\ \A k \in 1..N :
                       /\ rows[k].district_name = district_names[k]
                       /\ recs[k].district_name = district_names[k]
                /\ PairwiseDistinct(district_names) => PairwiseDistinct(rows)

C2_Witness ==
    /\ pc = "done" /\ N = 23 /\ PairwiseDistinct(district_names)
    /\ Len(The(files.final)) = 23

AllAbsent(r) ==
    /\ r.greatschools_rating = None /\ r.greatschools_url = None
    /\ r.niche_rating = None /\ r.niche_url = None
    /\ r.schooldigger_rating = None /\ r.schooldigger_url = None
    /\ r.enrollment = None /\ r.student_teacher_ratio = None
    /\ r.county = <<>>

\* C3: a district for which every get_page_source call returned None still
\* gets a record, in which every field but district_name and last_updated is
\* absent (county the empty placeholder); a run whose fetches all fail goes
\* through the whole list.
C3_Unreachable ==
    /\ (pc = "append" /\ hist.got = 0) =>
          /\ district_data # None
          /\ AllAbsent(The(district_data))
          /\ The(district_data).district_name = Name
          /\ The(district_data).last_updated # None
    /\ (pc = "done" /\ web = "offline") =>
          /\ Len(results) = N
          /\ \A k \in 1..N : AllAbsent(results[k])

C3_Witness ==
    /\ pc = "done" /\ web = "offline" /\ N >= 3
    /\ \A k \in 1..N : AllAbsent(results[k])

Is2xx(status) == 200 <= status /\ status < 300

\* C4: every get_page_source call sleeps once, issues one GET, never raises,
\* returns the page text on a 2xx response and None on a network error, a
\* timeout or any non-2xx status.
C4_Fetch ==
    \A k \in 1..Len(fetches) :
        LET f == fetches[k]
        IN  /\ f.events = <<"sleep", "get">>
            /\ ~f.raised
            /\ (f.outcome.kind = "response" /\ Is2xx(f.outcome.status))
                   => f.ret = Some(f.outcome.text)
            /\ ~(f.outcome.kind = "response" /\ Is2xx(f.outcome.status))
                   => f.ret = None

\* C5: within a district the sites are queried in the order GreatSchools,
\* Niche, SchoolDigger whatever each of them answers, and the fields of a
\* site change only in that site's own extract step.
C5_Independent ==
    [][ /\ pc' = "append" => hist'.queried = <<"gs", "niche", "sd">>
        /\ (district_data # None /\ district_data' # None /\ pc # "loop") =>
             LET old == The(district_data)
                 new == The(district_data')
             IN  /\ KeyPart(new) = KeyPart(old)
                 /\ GsPart(new) # GsPart(old) => pc = "gs_scrape"
                 /\ NichePart(new) # NichePart(old) => pc = "niche_scrape"
                 /\ SdPart(new) # SdPart(old) => pc = "sd_scrape"
      ]_vars

C5_Witness ==
    /\ pc = "append"
    /\ gs_url # None /\ hist.extract.gs = "failed"
    /\ The(district_data).greatschools_url = None
    /\ The(district_data).niche_url # None
    /\ The(district_data).schooldigger_url # None
    /\ hist.queried = <<"gs", "niche", "sd">>

\* the first anchor of the search page whose href matches the district
\* pattern and whose text contains the name, ignoring case
FirstMatchIs(page, name, url) ==
    \E k \in 1..Len(page.links) :
        LET Hit(l) == l.href.matches /\ Contains(Lower(l.text), Lower(name))
        IN  /\ Hit(page.links[k])
            /\ \A j \in 1..(k - 1) : ~Hit(page.links[j])
            /\ url = Some(UrlJoin(NicheBase, page.links[k].href))

NoMatch(page, name) ==
    \A k \in 1..Len(page.links) :
        ~(page.links[k].href.matches /\ Contains(Lower(page.links[k].text), Lower(name)))

SearchResultIs(source, name, url) ==
    IF source = None \/ ~The(source).nonempty THEN url = None
    ELSE \/ FirstMatchIs(The(source), name, url)
         \/ NoMatch(The(source), name) /\ url = None

\* C6 as stated: the guess step returns the guessed URL iff its fetch
\* succeeded and the body does not contain "404"; otherwise the search page
\* is fetched and the result is its first matching link, or absent.
C6_AsStated ==
    hist.step = "niche_search" =>
        LET g == fetches[1].ret
        IN  /\ (hist.niche_via = "guess") <=> (g # None /\ ~The(g).has404)
            /\ hist.niche_via = "guess" =>
                   Len(fetches) = 1 /\ niche_url = Some(NichePotentialUrl(Name))
            /\ hist.niche_via # "guess" =>
                   Len(fetches) = 2 /\ SearchResultIs(fetches[2].ret, Name, niche_url)

\* C6: the guess step returns the guessed URL iff its fetch returned a
\* non-empty text that does not contain "404"; otherwise the search page is
\* fetched and the result is its first matching link, or absent.
C6_GuessOrSearch ==
    hist.step = "niche_search" =>
        LET g == fetches[1].ret
        IN  /\ (hist.niche_via = "guess") <=>
                   (g # None /\ The(g).nonempty /\ ~The(g).has404)
            /\ hist.niche_via = "guess" =>
                   Len(fetches) = 1 /\ niche_url = Some(NichePotentialUrl(Name))
            /\ hist.niche_via # "guess" =>
                   Len(fetches) = 2 /\ SearchResultIs(fetches[2].ret, Name, niche_url)

C6_Witness ==
    /\ hist.step = "niche_search"
    /\ fetches[1].ret # None /\ The(fetches[1].ret).has404
    /\ hist.niche_via = "search"
    /\ Len(fetches) = 2
    /\ niche_url # None /\ niche_url # Some(NichePotentialUrl(Name))

\* a letter A-F, optionally followed by + or -
IsGrade(t) ==
    /\ Len(t) \in {1, 2}
    /\ t[1] \in GradeLetters
    /\ Len(t) = 2 => t[2] \in {"+", "-"}

\* C7: when the text of the matched grade element is a multi-character
\* string that is not a grade, no niche_rating is produced.
C7_GradeOnly ==
    (/\ hist.step = "niche_scrape"
     /\ grade_text # None
     /\ Len(The(grade_text)) > 1
     /\ ~IsGrade(The(grade_text)))
        => The(district_data).niche_rating = None

\* C8 as stated: a district costs exactly three fixed delays.
C8_AsStated == pc = "append" => hist.delays = 3

Bit(b) == IF b THEN 1 ELSE 0

\* C8: the three lookups of a district run one after another and cost
\* between four and seven fixed delays: one for each search fetch, two for
\* Niche when its guess is not accepted, one more for each located URL.
C8_Delays ==
    pc = "append" =>
        /\ hist.queried = <<"gs", "niche", "sd">>
        /\ hist.delays \in 4..7
        /\ hist.delays =
              (1 + Bit(gs_url # None))
                  + (IF hist.niche_via = "guess" THEN 2 ELSE 2 + Bit(niche_url # None))
                  + (1 + Bit(sd_url # None))

C8_Witness ==
    /\ pc = "append" /\ hist.delays = 7
    /\ gs_url # None /\ niche_url # None /\ sd_url # None

\* C9: every record created, checkpointed, written or returned has a
\* non-empty district name.
C9_NonEmptyName ==
    /\ district_data # None => The(district_data).district_name # <<>>
    /\ \A k \in 1..Len(results) : results[k].district_name # <<>>
    /\ \A fn \in {"temp", "final"} :
           files[fn] # None =>
               \A k \in 1..Len(The(files[fn])) : The(files[fn])[k].district_name # <<>>
    /\ returned # None =>
           \A k \in 1..Len(The(returned)) : The(returned)[k].district_name # <<>>

\* C10 as stated: an extract returns the empty map when its fetch fails and
\* otherwise a map holding the URL; a record's URL field is present iff the
\* locate returned a URL and the extract fetch succeeded; a rating or metric
\* is present only with its URL.
C10_AsStated ==
    /\ hist.step = "gs_scrape" =>
          IF fetches[1].ret = None
          THEN GsPart(The(district_data)) = <<None, None, None, None>>
          ELSE The(district_data).greatschools_url = gs_url
    /\ hist.step = "niche_scrape" =>
          IF fetches[1].ret = None
          THEN NichePart(The(district_data)) = <<None, None>>
          ELSE The(district_data).niche_url = niche_url
    /\ hist.step = "sd_scrape" =>
          IF fetches[1].ret = None
          THEN SdPart(The(district_data)) = <<None, None>>
          ELSE The(district_data).schooldigger_url = sd_url
    /\ pc = "append" =>
          LET r == The(district_data)
          IN  /\ (r.greatschools_url # None) <=>
                     (gs_url # None /\ hist.extract.gs \in {"empty", "text"})
              /\ (r.niche_url # None) <=>
                     (niche_url # None /\ hist.extract.niche \in {"empty", "text"})
              /\ (r.schooldigger_url # None) <=>
                     (sd_url # None /\ hist.extract.sd \in {"empty", "text"})

\* C10: an extract returns the empty map when its fetch returns None or the
\* empty text and otherwise a map holding the URL it was given; a record's
\* URL field is present iff the locate returned a URL and the extract fetch
\* returned a non-empty text; a rating or metric is present only with its URL.
C10_UrlAlways ==
    /\ hist.step = "gs_scrape" =>
          IF ~Truthy(fetches[1].ret)
          THEN GsPart(The(district_data)) = <<None, None, None, None>>
          ELSE The(district_data).greatschools_url = gs_url
    /\ hist.step = "niche_scrape" =>
          IF ~Truthy(fetches[1].ret)
          THEN NichePart(The(district_data)) = <<None, None>>
          ELSE The(district_data).niche_url = niche_url
    /\ hist.step = "sd_scrape" =>
          IF ~Truthy(fetches[1].ret)
          THEN SdPart(The(district_data)) = <<None, None>>
          ELSE The(district_data).schooldigger_url = sd_url
    /\ pc = "append" =>
          LET r == The(district_data)
          IN  /\ (r.greatschools_url # None) <=> (gs_url # None /\ hist.extract.gs = "text")
              /\ (r.niche_url # None) <=> (niche_url # None /\ hist.extract.niche = "text")
              /\ (r.schooldigger_url # None) <=> (sd_url # None /\ hist.extract.sd = "text")
              /\ r.greatschools_url # None => r.greatschools_url = gs_url
              /\ r.niche_url # None => r.niche_url = niche_url
              /\ r.schooldigger_url # None => r.schooldigger_url = sd_url
              /\ (r.greatschools_rating # None \/ r.enrollment # None
                      \/ r.student_teacher_ratio # None) => r.greatschools_url # None
              /\ r.niche_rating # None => r.niche_url # None
              /\ r.schooldigger_rating # None => r.schooldigger_url # None

C10_Witness ==
    /\ pc = "append"
    /\ hist.extract.gs = "text"
    /\ The(district_data).greatschools_rating = Some(8)
    /\ The(district_data).greatschools_url = gs_url
    /\ niche_url # None /\ hist.extract.niche = "empty"
    /\ The(district_data).niche_url = None
    /\ sd_url # None /\ hist.extract.sd = "failed"
    /\ The(district_data).schooldigger_url = None

====
